---- MODULE Spec2Model ----
(***************************************************************************)
(* python-flowcharter, graphviz-flowchart-generator.py: the pipeline of     *)
(* main() as a state machine.                                               *)
(*                                                                          *)
(*   visit                  FlowchartMakingVisitor.visit(tree) builds the   *)
(*                          node graph (one action, the whole visitor)      *)
(*   deleteExtraneousNodes  the recursive simplifier, one step per frame    *)
(*                          position, on an explicit call stack             *)
(*   generateGraph          the recursive emitter, likewise                 *)
(*   view                   g.view(); emission may then be run once more    *)
(*                                                                          *)
(* An uncaught Python exception ends the run in phase "crashed".            *)
(***************************************************************************)
EXTENDS Integers, Sequences, FiniteSets, TLC

VARIABLES prog, phase, exc, nodes, currentParent, stack, ret, graph,
          built, ifs, whiles, calls, firstIndex, run

vars == <<prog, phase, exc, nodes, currentParent, stack, ret, graph,
          built, ifs, whiles, calls, firstIndex, run>>

(***************************************************************************)
(* Bounds of the model.                                                     *)
(***************************************************************************)
\* statements (at any depth) in a nested program
MaxStmts == 4
\* statements in a straight-line program over every right-hand side
MaxFlat == 2
\* CPython's recursion limit (sys.getrecursionlimit(), 1000 by default),
\* scaled down; the deepest terminating simplification of a program of
\* MaxStmts + 1 statements needs 29 frames
RecursionLimit == 40
\* how many times emission is run on one graph
MaxRuns == 2

(***************************************************************************)
(* Python's None: as a child reference (node ids start at 1) and as an      *)
(* index (the simplifier's marker is 0, emission indices start at 1).       *)
(***************************************************************************)
NoChild == 0
NoIndex == -1

(***************************************************************************)
(* The input: the ast of the source file.  Every expression is             *)
(* [type, id, args], every statement [type, target, value, body, orelse].   *)
(***************************************************************************)
Expr(type, id, args) == [type |-> type, id |-> id, args |-> args]
Name(id) == Expr("Name", id, <<>>)
Num(n) == Expr("Num", n, <<>>)
Call(func, args) == Expr("Call", func, args)
BinOp(left, op, right) == Expr("BinOp", op, <<left, right>>)
Compare(left, op, right) == Expr("Compare", op, <<left, right>>)

Stmt(type, value, body, orelse) ==
    [type |-> type, target |-> "x", value |-> value, body |-> body, orelse |-> orelse]

InputCall == Call("input", <<>>)

\* the right-hand sides of the straight-line programs
Values ==
    { InputCall,
      Call("int", <<InputCall>>),
      Call("foo", <<>>),
      Call("foo", <<InputCall, Num("2")>>),
      Call("print", <<Name("y")>>),
      Name("y"),
      BinOp(Name("y"), "Add", Num("1")),
      Expr("UnaryOp", "USub", <<Num("1")>>) }

Test == Compare(Name("x"), "Gt", Num("0"))

\* leaves of the nested programs: a node, no node, an unsupported statement
Leaves ==
    { Stmt("Assign", Num("1"), <<>>, <<>>),
      Stmt("ImportFrom", Num("0"), <<>>, <<>>),
      Stmt("FunctionDef", Num("0"), <<>>, <<>>) }

FlatLeaves ==
    { Stmt(t, v, <<>>, <<>>) : t \in {"Assign", "Expr"}, v \in Values }
    \cup { Stmt("ImportFrom", Num("0"), <<>>, <<>>) }

RECURSIVE StmtsOfSize(_), ListsOfSize(_)
\* the statements made of exactly n statements; a parsed body is never empty,
\* an orelse may be
StmtsOfSize(n) ==
    IF n = 1 THEN Leaves
    ELSE UNION { { Stmt(t, Test, b, e) :
                     t \in {"If", "While"}, b \in ListsOfSize(k), e \in ListsOfSize(n - 1 - k) }
                 : k \in 1..(n - 1) }
ListsOfSize(n) ==
    IF n = 0 THEN { <<>> }
    ELSE UNION { { <<s>> \o r : s \in StmtsOfSize(a), r \in ListsOfSize(n - a) }
                 : a \in 1..n }

RECURSIVE FlatOfLen(_)
FlatOfLen(n) ==
    IF n = 0 THEN { <<>> }
    ELSE { <<s>> \o r : s \in FlatLeaves, r \in FlatOfLen(n - 1) }

Programs ==
    UNION { ListsOfSize(n) : n \in 0..MaxStmts }
    \cup UNION { FlatOfLen(n) : n \in 0..MaxFlat }

(***************************************************************************)
(* Node model.                                                              *)
(***************************************************************************)
start == 1

FlowchartNode(kind, text) ==
    [kind |-> kind, text |-> text, child |-> NoChild, Yes |-> NoChild, No |-> NoChild,
     index |-> NoIndex]

StartNode == FlowchartNode("Start", "Start")
EndNode == FlowchartNode("End", "Stop")
InputNode(varName) == FlowchartNode("Input", "input " \o varName)
OutputNode(varName) == FlowchartNode("Output", "output " \o varName)
ProcessNode(text) == FlowchartNode("Process", text)
VariableAssignmentNode(varName, expression) ==
    FlowchartNode("VariableAssignment", varName \o " = " \o expression)
ConditionalNode(condition) == FlowchartNode("Conditional", condition)
DummyConjunctionNode == FlowchartNode("DummyConjunction", "     | <---")
DummyMiddleNode == FlowchartNode("DummyMiddle", "")

\* isinstance(node.child, dict)
HasDictChild(n) == n.kind = "Conditional"

(***************************************************************************)
(* Expression formatter.                                                    *)
(***************************************************************************)
operators ==
    [op \in {"Mult", "Add", "Sub", "Div", "Or", "And", "Gt", "Lt", "Eq", "NotEq"} |->
        CASE op = "Mult" -> "*" [] op = "Add" -> "+" [] op = "Sub" -> "-"
          [] op = "Div" -> "/" [] op = "Or" -> "or" [] op = "And" -> "and"
          [] op = "Gt" -> ">" [] op = "Lt" -> "<" [] op = "Eq" -> "="
          [] op = "NotEq" -> "!="]

RECURSIVE Join(_, _)
Join(strs, sep) ==
    IF strs = <<>> THEN ""
    ELSE IF Len(strs) = 1 THEN strs[1]
    ELSE strs[1] \o sep \o Join(Tail(strs), sep)

RECURSIVE Parses(_)
\* parseChunk returns instead of raising "Unknown object to parse"
Parses(o) ==
    /\ o.type \in {"BinOp", "Num", "Name", "Str", "Call", "BoolOp", "Compare"}
    /\ \A i \in 1..Len(o.args) : Parses(o.args[i])

RECURSIVE parseChunk(_)
parseFunctionArgs(call) == [i \in 1..Len(call.args) |-> parseChunk(call.args[i])]
parseFunctionCall(call) == call.id \o "(" \o Join(parseFunctionArgs(call), ", ") \o ")"
parseBinOp(op) ==
    parseChunk(op.args[1]) \o " " \o operators[op.id] \o " " \o parseChunk(op.args[2])
parseBoolOp(op) ==
    Join([i \in 1..Len(op.args) |-> parseChunk(op.args[i])], " " \o operators[op.id] \o " ")
parseCompare(op) ==
    parseChunk(op.args[1]) \o " " \o operators[op.id] \o " " \o parseChunk(op.args[2])
parseChunk(o) ==
    CASE o.type = "BinOp" -> "(" \o parseBinOp(o) \o ")"
      [] o.type = "Num" -> o.id
      [] o.type = "Name" -> o.id
      [] o.type = "Str" -> "'" \o o.id \o "'"
      [] o.type = "Call" -> parseFunctionCall(o)
      [] o.type = "BoolOp" -> "(" \o parseBoolOp(o) \o ")"
      [] o.type = "Compare" -> "(" \o parseCompare(o) \o ")"
      [] OTHER -> "?"

(***************************************************************************)
(* CFG builder: FlowchartMakingVisitor.  A builder value b is the visitor's *)
(* state: the nodes allocated so far (a node's id is its position),         *)
(* currentParent, and the exception that unwound the visit, if any.         *)
(* b.ifs and b.whiles record, per visited statement, the locals of          *)
(* visit_If (condNode, endbody, the else-branch's end cursor, endcap) and   *)
(* of visit_While (top, condNode, the body-end cursor, the No placeholder). *)
(***************************************************************************)
Visitor ==
    [nodes |-> <<StartNode>>, currentParent |-> start, exc |-> "",
     ifs |-> <<>>, whiles |-> <<>>]

\* a constructor call: the new object is Last(New(b, node))
New(b, node) == [b EXCEPT !.nodes = Append(@, node)]
Last(b) == Len(b.nodes)
Raise(b, e) == [b EXCEPT !.exc = e]

appendNode(b, node) ==
    [b EXCEPT !.nodes[b.currentParent].child = node, !.currentParent = node]

\* appendNode(SomeNode(...))
appendNew(b, node) == appendNode(New(b, node), Last(New(b, node)))

visit_Assign(b, node) ==
    LET value == node.value
        plain == IF Parses(value)
                 THEN appendNew(b, VariableAssignmentNode(node.target, parseChunk(value)))
                 ELSE Raise(b, "Exception")
    IN  IF value.type = "Call"
        THEN IF value.id = "input"
             THEN appendNew(b, InputNode(node.target))
             ELSE IF Len(value.args) = 0
             THEN Raise(b, "IndexError")
             ELSE IF value.args[1].type = "Call" /\ value.args[1].id = "input"
             THEN appendNew(b, InputNode(node.target))
             ELSE plain
        ELSE plain

visit_Expr(b, node) ==
    LET value == node.value
    IN  IF value.type = "Call"
        THEN IF \E i \in 1..Len(value.args) : ~Parses(value.args[i])
             THEN Raise(b, "Exception")
             ELSE IF value.id \in {"print", "pprint"}
             THEN appendNew(b, OutputNode(Join(parseFunctionArgs(value), ", ")))
             ELSE appendNew(b, ProcessNode(parseFunctionCall(value)))
        ELSE Raise(b, "Exception")

visit_ImportFrom(b, node) == b

generic_visit(b, node) == Raise(b, "Exception")

RECURSIVE visit(_, _), visitAll(_, _)

\* for n in body: self.visit(n); an exception ends the loop
visitAll(b, body) ==
    IF body = <<>> \/ b.exc # "" THEN b
    ELSE visitAll(visit(b, Head(body)), Tail(body))

\* visit_If's last four lines: one DummyConjunction, the child of both end
\* cursors, and the new cursor
JoinBranchesTwice(b, endbody, endelse) ==
    LET b1 == New(b, DummyConjunctionNode)
        b2 == [b1 EXCEPT !.nodes[endbody].child = Last(b1)]
        b3 == New(b2, DummyConjunctionNode)
        b4 == [b3 EXCEPT !.nodes[endelse].child = Last(b3)]
    IN  [b4 EXCEPT !.currentParent = Last(b3)]

JoinBranches(b, endbody, endelse) ==
    LET b1 == New(b, DummyConjunctionNode)
        endcap == Last(b1)
        b2 == [b1 EXCEPT !.nodes[endbody].child = endcap]
        b3 == [b2 EXCEPT !.nodes[endelse].child = endcap]
    IN  [b3 EXCEPT !.currentParent = endcap]

visit_If(b, node) ==
    LET b1 == appendNew(b, ConditionalNode(parseChunk(node.value)))
        condNode == Last(b1)
        b2 == New(b1, DummyMiddleNode)
        b3 == [b2 EXCEPT !.nodes[condNode].Yes = Last(b2), !.currentParent = Last(b2)]
        b4 == visitAll(b3, node.body)
        endbody == b4.currentParent
        b5 == New(b4, DummyMiddleNode)
        b6 == [b5 EXCEPT !.nodes[condNode].No = Last(b5), !.currentParent = Last(b5)]
        b7 == visitAll(b6, node.orelse)
        b8 == JoinBranches(b7, endbody, b7.currentParent)
    IN  IF ~Parses(node.value) THEN Raise(b, "Exception")
        ELSE IF b4.exc # "" THEN b4
        ELSE IF b7.exc # "" THEN b7
        ELSE [b8 EXCEPT !.ifs = Append(@, [condNode |-> condNode, endbody |-> endbody,
                                           endelse |-> b7.currentParent,
                                           endcap |-> b8.currentParent])]

visit_While(b, node) ==
    LET b1 == appendNew(b, DummyConjunctionNode)
        top == Last(b1)
        b2 == appendNew(b1, ConditionalNode(parseChunk(node.value)))
        condNode == Last(b2)
        b3 == New(b2, DummyMiddleNode)
        b4 == [b3 EXCEPT !.nodes[condNode].Yes = Last(b3), !.currentParent = Last(b3)]
        b5 == visitAll(b4, node.body)
        b6 == [b5 EXCEPT !.nodes[b5.currentParent].child = top]
        b7 == New(b6, DummyMiddleNode)
    IN  IF ~Parses(node.value) THEN Raise(b1, "Exception")
        ELSE IF b5.exc # "" THEN b5
        ELSE [b7 EXCEPT !.nodes[condNode].No = Last(b7), !.currentParent = Last(b7),
                        !.whiles = Append(@, [top |-> top, condNode |-> condNode,
                                              endbody |-> b5.currentParent,
                                              exit |-> Last(b7),
                                              allocated |-> Len(b7.nodes) - Len(b5.nodes)])]

\* ast.NodeVisitor.visit: dispatch on the class name, generic_visit otherwise
visit(b, node) ==
    CASE node.type = "Assign" -> visit_Assign(b, node)
      [] node.type = "Expr" -> visit_Expr(b, node)
      [] node.type = "If" -> visit_If(b, node)
      [] node.type = "ImportFrom" -> visit_ImportFrom(b, node)
      [] node.type = "While" -> visit_While(b, node)
      [] OTHER -> generic_visit(b, node)

visit_ModuleNoEnd(b, body) == visitAll(b, body)
visit_Module(b, body) ==
    LET b1 == visitAll(b, body)
    IN  IF b1.exc # "" THEN b1 ELSE appendNew(b1, EndNode)

(***************************************************************************)
(* The call stack of the two recursive walks.  A frame is the node the call *)
(* was made on, the position the call has reached, and generateGraph's      *)
(* local ind.  A call that would exceed the recursion limit raises          *)
(* RecursionError, which nothing catches.                                   *)
(***************************************************************************)
Frame(node) == [node |-> node, pc |-> "call", ind |-> 0]
Top == stack[Len(stack)]
Caller(pc, ind) == [stack EXCEPT ![Len(stack)].pc = pc, ![Len(stack)].ind = ind]
Popped == SubSeq(stack, 1, Len(stack) - 1)
Overflows == Len(stack) >= RecursionLimit

\* the next position of "for n in node.child", a dict created as {"No", "Yes"}
FirstKeyOnly(k) == "end"
NextKey(k) == IF k = "No" THEN "Yes" ELSE "end"

Crash(e) ==
    /\ phase' = "crashed"
    /\ exc' = e
    /\ stack' = <<>>

(***************************************************************************)
(* main(): visitor = FlowchartMakingVisitor(); visitor.visit(tree)          *)
(***************************************************************************)
Init ==
    /\ prog \in Programs
    /\ phase = "visit"
    /\ exc = ""
    /\ nodes = Visitor.nodes
    /\ currentParent = Visitor.currentParent
    /\ stack = <<>>
    /\ ret = 0
    /\ graph = [node |-> <<>>, edge |-> <<>>]
    /\ built = <<>>
    /\ ifs = <<>>
    /\ whiles = <<>>
    /\ calls = <<>>
    /\ firstIndex = <<>>
    /\ run = 0

Visit ==
    /\ phase = "visit"
    /\ LET b == visit_Module(Visitor, prog)
       IN  /\ nodes' = b.nodes
           /\ currentParent' = b.currentParent
           /\ ifs' = b.ifs
           /\ whiles' = b.whiles
           /\ IF b.exc # ""
              THEN Crash(b.exc) /\ built' = built
              ELSE /\ phase' = "deleteExtraneousNodes"
                   /\ stack' = <<Frame(start)>>
                   /\ built' = b.nodes
                   /\ exc' = exc
    /\ UNCHANGED <<prog, ret, graph, calls, firstIndex, run>>

(***************************************************************************)
(* deleteExtraneousNodes(node)                                              *)
(***************************************************************************)
\* isinstance(x, (DummyMiddleNode, DummyConjunctionNode)), x a child reference
IsDummyMiddle(x) == x # NoChild /\ nodes[x].kind = "DummyMiddle"
IsDummy(x) == x # NoChild /\ nodes[x].kind \in {"DummyMiddle", "DummyConjunction"}

\* the recursive call deleteExtraneousNodes(callee), the caller resuming at pc
DenRecurse(callee, pc) ==
    IF Overflows
    THEN Crash("RecursionError")
    ELSE /\ stack' = Append(Caller(pc, 0), Frame(callee))
         /\ UNCHANGED <<phase, exc>>

\* entry of a call: the marker test, then the dict test, then the linear case
DenCall ==
    /\ phase = "deleteExtraneousNodes"
    /\ stack # <<>>
    /\ Top.pc = "call"
    /\ LET n == Top.node
           c == nodes[n].child
       IN  IF n = NoChild
           THEN Crash("AttributeError") /\ nodes' = nodes
           ELSE IF nodes[n].index = 0
           THEN stack' = Popped /\ UNCHANGED <<nodes, phase, exc>>
           ELSE IF HasDictChild(nodes[n])
           THEN stack' = Caller("No", 0) /\ UNCHANGED <<nodes, phase, exc>>
           ELSE IF c # NoChild
           THEN IF IsDummy(c)
                THEN /\ nodes' = [nodes EXCEPT ![n].child = nodes[c].child]
                     /\ DenRecurse(n, "ret")
                ELSE /\ nodes' = [nodes EXCEPT ![n].index = 0]
                     /\ DenRecurse(c, "ret")
           ELSE stack' = Popped /\ UNCHANGED <<nodes, phase, exc>>
    /\ UNCHANGED <<prog, currentParent, ret, graph, built, ifs, whiles, calls,
                   firstIndex, run>>

\* one iteration of "for n in node.child"
DenBranch ==
    /\ phase = "deleteExtraneousNodes"
    /\ stack # <<>>
    /\ Top.pc \in {"No", "Yes"}
    /\ LET n == Top.node
           k == Top.pc
           c == nodes[n][k]
       IN  IF IsDummy(c)
           THEN /\ nodes' = [nodes EXCEPT ![n][k] = nodes[c].child]
                /\ DenRecurse(n, NextKey(k))
           ELSE /\ nodes' = nodes
                /\ DenRecurse(c, NextKey(k))
    /\ UNCHANGED <<prog, currentParent, ret, graph, built, ifs, whiles, calls,
                   firstIndex, run>>

\* after the loop: node.index = 0, and the call returns
DenMark ==
    /\ phase = "deleteExtraneousNodes"
    /\ stack # <<>>
    /\ Top.pc = "end"
    /\ nodes' = [nodes EXCEPT ![Top.node].index = 0]
    /\ stack' = Popped
    /\ UNCHANGED <<prog, phase, exc, currentParent, ret, graph, built, ifs, whiles,
                   calls, firstIndex, run>>

\* a linear node's call returns once its recursive call has
DenReturn ==
    /\ phase = "deleteExtraneousNodes"
    /\ stack # <<>>
    /\ Top.pc = "ret"
    /\ stack' = Popped
    /\ UNCHANGED <<prog, phase, exc, nodes, currentParent, ret, graph, built, ifs,
                   whiles, calls, firstIndex, run>>

(***************************************************************************)
(* main(): g.node('node1', ...); start.index = 1; generateGraph(g, start)   *)
(***************************************************************************)
StartEmission ==
    /\ phase = "deleteExtraneousNodes"
    /\ stack = <<>>
    /\ phase' = "generateGraph"
    /\ graph' = [graph EXCEPT !.node = Append(@, 1)]
    /\ nodes' = [nodes EXCEPT ![start].index = 1]
    /\ stack' = <<Frame(start)>>
    /\ calls' = [n \in 1..Len(nodes) |-> IF n = start THEN 1 ELSE 0]
    /\ run' = 1
    /\ UNCHANGED <<prog, exc, currentParent, ret, built, ifs, whiles, firstIndex>>

(***************************************************************************)
(* generateGraph(graph, node)                                               *)
(***************************************************************************)
\* "if node.child[n].index:" and "if node.child.index:" -- None and 0 are
\* both false
NeverVisited(index) == FALSE
BranchVisited(index) == index # NoIndex /\ index # 0
NeverLoopingBack(index) == FALSE
ChildVisited(index) == index # NoIndex /\ index # 0

\* "ind = generateGraph(graph, child) + 1": the index after a returned call
IndOfReturned(returned) == returned
IndAfter(returned) == returned + 1

\* graph.node("node{i}", ...) and graph.edge("node{a}", "node{b}", label=...)
Declared(g, i) == [g EXCEPT !.node = Append(@, i)]
Connected(g, a, b, label) == [g EXCEPT !.edge = Append(@, <<a, b, label>>)]

\* the recursive call generateGraph(graph, callee), the caller resuming at pc
GenRecurse(callee, pc, ind) ==
    /\ calls' = [calls EXCEPT ![callee] = @ + 1]
    /\ IF Overflows
       THEN Crash("RecursionError")
       ELSE /\ stack' = Append(Caller(pc, ind), Frame(callee))
            /\ UNCHANGED <<phase, exc>>

\* entry of a call: ind = node.index + 1 for a dict, else the linear case
GenCall ==
    /\ phase = "generateGraph"
    /\ stack # <<>>
    /\ Top.pc = "call"
    /\ LET n == Top.node
           c == nodes[n].child
           i == nodes[n].index
       IN  IF HasDictChild(nodes[n])
           THEN /\ stack' = Caller("No", i + 1)
                /\ UNCHANGED <<nodes, graph, ret, calls, phase, exc>>
           ELSE IF c # NoChild
           THEN IF ChildVisited(nodes[c].index)
                THEN /\ graph' = Connected(graph, i, nodes[c].index, "")
                     /\ ret' = i + 1
                     /\ stack' = Popped
                     /\ UNCHANGED <<nodes, calls, phase, exc>>
                ELSE /\ graph' = Connected(Declared(graph, i + 1), i, i + 1, "")
                     /\ nodes' = [nodes EXCEPT ![c].index = i + 1]
                     /\ GenRecurse(c, "retChild", 0)
                     /\ ret' = ret
           ELSE /\ ret' = i
                /\ stack' = Popped
                /\ UNCHANGED <<nodes, graph, calls, phase, exc>>
    /\ UNCHANGED <<prog, currentParent, built, ifs, whiles, firstIndex, run>>

\* one iteration of "for n in node.child"
GenBranch ==
    /\ phase = "generateGraph"
    /\ stack # <<>>
    /\ Top.pc \in {"No", "Yes"}
    /\ LET n == Top.node
           k == Top.pc
           c == nodes[n][k]
           i == nodes[n].index
           ind == Top.ind
       IN  IF c = NoChild
           THEN Crash("AttributeError") /\ UNCHANGED <<nodes, graph, calls>>
           ELSE IF BranchVisited(nodes[c].index)
           THEN /\ graph' = Connected(graph, i, nodes[c].index, k)
                /\ stack' = Caller(NextKey(k), ind)
                /\ UNCHANGED <<nodes, calls, phase, exc>>
           ELSE /\ graph' = Connected(Declared(graph, ind), i, ind, k)
                /\ nodes' = [nodes EXCEPT ![c].index = ind]
                /\ GenRecurse(c, "ret" \o k, ind)
    /\ UNCHANGED <<prog, currentParent, ret, built, ifs, whiles, firstIndex, run>>

\* the recursive call of an iteration has returned: ind = <returned> + 1
GenResume ==
    /\ phase = "generateGraph"
    /\ stack # <<>>
    /\ Top.pc \in {"retNo", "retYes"}
    /\ stack' = Caller(NextKey(IF Top.pc = "retNo" THEN "No" ELSE "Yes"), IndAfter(ret))
    /\ UNCHANGED <<prog, phase, exc, nodes, currentParent, ret, graph, built, ifs,
                   whiles, calls, firstIndex, run>>

\* "return ind" after the loop; "return generateGraph(graph, node.child) + 1"
GenReturn ==
    /\ phase = "generateGraph"
    /\ stack # <<>>
    /\ Top.pc \in {"end", "retChild"}
    /\ ret' = IF Top.pc = "end" THEN Top.ind ELSE ret + 1
    /\ stack' = Popped
    /\ UNCHANGED <<prog, phase, exc, nodes, currentParent, graph, built, ifs, whiles,
                   calls, firstIndex, run>>

\* main(): g.view(filename="flowchart")
View ==
    /\ phase = "generateGraph"
    /\ stack = <<>>
    /\ phase' = "view"
    /\ firstIndex' = IF run = 1 THEN [n \in 1..Len(nodes) |-> nodes[n].index]
                     ELSE firstIndex
    /\ UNCHANGED <<prog, exc, nodes, currentParent, stack, ret, graph, built, ifs,
                   whiles, calls, run>>

\* emission run again on the same graph: start.index = 1; generateGraph(g, start)
EmitAgain ==
    /\ phase = "view"
    /\ run < MaxRuns
    /\ phase' = "generateGraph"
    /\ nodes' = [nodes EXCEPT ![start].index = 1]
    /\ stack' = <<Frame(start)>>
    /\ calls' = [n \in 1..Len(nodes) |-> IF n = start THEN 1 ELSE 0]
    /\ run' = run + 1
    /\ UNCHANGED <<prog, exc, currentParent, ret, graph, built, ifs, whiles,
                   firstIndex>>

Next ==
    \/ Visit
    \/ DenCall
    \/ DenBranch
    \/ DenMark
    \/ DenReturn
    \/ StartEmission
    \/ GenCall
    \/ GenBranch
    \/ GenResume
    \/ GenReturn
    \/ View
    \/ EmitAgain

Spec == Init /\ [][Next]_vars

(***************************************************************************)
(* Graph vocabulary of the properties.  h is a heap: nodes or built.        *)
(***************************************************************************)
Placeholder(h, x) == x # NoChild /\ h[x].kind \in {"DummyMiddle", "DummyConjunction"}

\* the child slots of a node, and the references held in them
Slots(h, n) == IF h[n].kind = "Conditional" THEN {"Yes", "No"} ELSE {"child"}
Refs(h, n) == { h[n][s] : s \in Slots(h, n) }
Succ(h, n) == Refs(h, n) \ {NoChild}

RECURSIVE Closure(_, _)
Closure(h, seen) ==
    LET more == seen \cup UNION { Succ(h, n) : n \in seen }
    IN  IF more = seen THEN seen ELSE Closure(h, more)

\* the nodes reachable from Start, Start included
Reachable(h) == Closure(h, {start})

\* simplification has returned to main()
Simplified == phase \in {"generateGraph", "view"}

\* the visitor has returned to main(): built is the graph it built
Built == built # <<>>

(***************************************************************************)
(* C1.  Simplification (deleteExtraneousNodes on Start) terminates on every *)
(* graph the builder produces: it never recurses without end, which CPython *)
(* reports as RecursionError.                                               *)
(***************************************************************************)
C1_SimplificationTerminates ==
    ~(phase = "crashed" /\ exc = "RecursionError" /\ Built /\ run = 0)

(***************************************************************************)
(* C2.  Whenever simplification has returned, no DummyMiddle and no         *)
(* DummyConjunction is reachable from Start: every reachable node is a real *)
(* node, both children of a reachable Conditional are set and real, and the *)
(* child of a reachable linear node, when set, is real.                     *)
(***************************************************************************)
C2_NoPlaceholderReachable ==
    Simplified =>
        \A n \in Reachable(nodes) :
            /\ ~Placeholder(nodes, n)
            /\ \A c \in Refs(nodes, n) : ~Placeholder(nodes, c)
            /\ nodes[n].kind = "Conditional" => NoChild \notin Refs(nodes, n)

\* simplification has returned on a graph that had placeholders of both kinds,
\* from an if and from a while
C2_Witness ==
    /\ Simplified
    /\ Len(ifs) > 0
    /\ Len(whiles) > 0
    /\ \E n \in 1..Len(built) : built[n].kind = "DummyMiddle"
    /\ \E n \in 1..Len(built) : built[n].kind = "DummyConjunction"

(***************************************************************************)
(* Following a reference through placeholders, in the graph as built.       *)
(***************************************************************************)
RECURSIVE Chain(_, _), Resolve(_, _)
\* the placeholders a reference x leads through before a real node
Chain(h, x) == IF Placeholder(h, x) THEN {x} \cup Chain(h, h[x].child) ELSE {}
\* the first real node (or None) that x leads to
Resolve(h, x) == IF Placeholder(h, x) THEN Resolve(h, h[x].child) ELSE x

Real(h) == { n \in 1..Len(h) : ~Placeholder(h, n) }

\* the references of real nodes that reach placeholder `join` by way of the
\* end cursor `cursor`: the cursor's own child when the cursor is a real node,
\* else every reference that leads through the cursor
SlotsInto(h, cursor, join) ==
    { ns \in UNION { { <<n, s>> : s \in Slots(h, n) } : n \in Real(h) } :
        /\ join \in Chain(h, h[ns[1]][ns[2]])
        /\ ns[1] = cursor \/ cursor \in Chain(h, h[ns[1]][ns[2]]) }

DummyConjunctions(h) == { n \in 1..Len(h) : h[n].kind = "DummyConjunction" }

(***************************************************************************)
(* C3.  For every if statement the builder allocates exactly one            *)
(* DummyConjunction and makes it the child of the end cursor of the         *)
(* then-branch and of the end cursor of the else-branch; once               *)
(* simplification has returned, every reference by which either branch      *)
(* reached that join points to one and the same real node, the one the join *)
(* led to (so Yes and No of the Conditional are that node when both bodies  *)
(* are empty).                                                              *)
(***************************************************************************)
C3_IfJoinsOnce ==
    Built =>
        /\ Cardinality(DummyConjunctions(built)) = Len(ifs) + Len(whiles)
        /\ \A i, j \in 1..Len(ifs) : ifs[i].endcap = ifs[j].endcap => i = j
        /\ \A i \in 1..Len(ifs) : \A j \in 1..Len(whiles) : ifs[i].endcap # whiles[j].top
        /\ \A i \in 1..Len(ifs) :
            LET f == ifs[i]
                join == Resolve(built, f.endcap)
                then == SlotsInto(built, f.endbody, f.endcap)
                else == SlotsInto(built, f.endelse, f.endcap)
            IN  /\ built[f.endcap].kind = "DummyConjunction"
                /\ built[f.endbody].child = f.endcap
                /\ built[f.endelse].child = f.endcap
                /\ built[f.condNode].kind = "Conditional"
                /\ then # {}
                /\ else # {}
                /\ Simplified =>
                    /\ join # NoChild
                    /\ ~Placeholder(nodes, join)
                    /\ \A ns \in then \cup else : nodes[ns[1]][ns[2]] = join
                    /\ (f.endbody = built[f.condNode].Yes /\ f.endelse = built[f.condNode].No)
                        => nodes[f.condNode].Yes = join /\ nodes[f.condNode].No = join

\* simplification has returned on an if whose then-body holds more nodes than
\* its one-node else-body, and the last node of each now points to the join
C3_Witness ==
    /\ Simplified
    /\ \E i \in 1..Len(ifs) :
        LET f == ifs[i]
        IN  /\ ~Placeholder(built, f.endbody)
            /\ ~Placeholder(built, f.endelse)
            /\ built[built[f.condNode].Yes].child # f.endbody
            /\ built[built[f.condNode].No].child = f.endelse
            /\ nodes[f.endbody].child = nodes[f.endelse].child
            /\ nodes[f.endbody].child = Resolve(built, f.endcap)

(***************************************************************************)
(* C4.  For every while statement the builder closes the loop by making the *)
(* already allocated loop header the child of the body-end cursor, and      *)
(* allocates nothing for the back-edge; simplification then returns a graph *)
(* in which the back-edge goes from the last node of the body to the loop's *)
(* Conditional (from the Conditional's Yes to the Conditional itself when   *)
(* the body appended no node) and No leads to the first node after the      *)
(* loop.                                                                    *)
(***************************************************************************)
C4_LoopPreserved ==
    (Built /\ Len(whiles) > 0) =>
        /\ ~(phase = "crashed" /\ run = 0)
        /\ \A i \in 1..Len(whiles) :
            LET w == whiles[i]
            IN  /\ built[w.top].kind = "DummyConjunction"
                /\ built[w.top].child = w.condNode
                /\ built[w.endbody].child = w.top
                /\ w.allocated = 1
                /\ Simplified =>
                    /\ ~Placeholder(built, w.endbody)
                        => nodes[w.endbody].child = w.condNode
                    /\ w.endbody = built[w.condNode].Yes
                        => nodes[w.condNode].Yes = w.condNode
                    /\ nodes[w.condNode].No = Resolve(built, w.exit)

\* the same, for the loops whose simplification returns
C4_LoopPreservedWhenReturned ==
    (Built /\ Len(whiles) > 0) =>
        \A i \in 1..Len(whiles) :
            LET w == whiles[i]
            IN  /\ built[w.top].kind = "DummyConjunction"
                /\ built[w.top].child = w.condNode
                /\ built[w.endbody].child = w.top
                /\ w.allocated = 1
                /\ Simplified =>
                    /\ ~Placeholder(built, w.endbody)
                        => nodes[w.endbody].child = w.condNode
                    /\ w.endbody = built[w.condNode].Yes
                        => nodes[w.condNode].Yes = w.condNode
                    /\ nodes[w.condNode].No = Resolve(built, w.exit)

\* simplification returned for a while whose body appended no node
C4_EmptyBodyReturned ==
    ~(Simplified /\ \E i \in 1..Len(whiles) :
                        whiles[i].endbody = built[whiles[i].condNode].Yes)

(***************************************************************************)
(* C5.  For every program without a while statement the graph the builder   *)
(* returns is acyclic, holds exactly one End node, appended last, and every *)
(* path of child references from Start ends at it: the only reachable node  *)
(* with an unset child is End.                                              *)
(***************************************************************************)
RECURSIVE HasWhile(_)
HasWhile(body) ==
    \E i \in 1..Len(body) :
        \/ body[i].type = "While"
        \/ HasWhile(body[i].body)
        \/ HasWhile(body[i].orelse)

Ends(h) == { n \in 1..Len(h) : h[n].kind = "End" }

Acyclic(h) == \A n \in 1..Len(h) : n \notin Closure(h, Succ(h, n))

C5_LoopFreeReachesEnd ==
    (Built /\ ~HasWhile(prog)) =>
        /\ Acyclic(built)
        /\ Ends(built) = {Len(built)}
        /\ currentParent = Len(built)
        /\ \A n \in Reachable(built) :
            /\ Len(built) \in Closure(built, {n})
            /\ NoChild \in Refs(built, n) => n = Len(built)

\* a loop-free program with an if nested in an if has been built
C5_Witness ==
    /\ Built
    /\ ~HasWhile(prog)
    /\ Len(ifs) >= 2
    /\ Cardinality(Reachable(built)) > 6

(***************************************************************************)
(* Emission vocabulary.                                                     *)
(***************************************************************************)
\* emission has started: graph and calls are those of generateGraph
Emitting == phase \in {"generateGraph", "view"}

\* the node carries an index given by emission (the simplifier's marker is 0)
Indexed(n) == nodes[n].index >= 1

StrictlyIncreasing(seq) == \A i, j \in 1..Len(seq) : i < j => seq[i] < seq[j]

Occurrences(seq, v) == Cardinality({ i \in 1..Len(seq) : seq[i] = v })

(***************************************************************************)
(* C6.  During emission every node is declared to the backend at most once, *)
(* under the index it carries; no two nodes carry the same index; each      *)
(* newly declared index is greater than every index declared before it;     *)
(* and when generateGraph has returned, every node reachable from Start     *)
(* carries an index and has been declared exactly once -- whether the node  *)
(* carried no marker or the simplifier's 0 beforehand.                      *)
(***************************************************************************)
C6_UniqueIncreasingIndices ==
    Emitting =>
        /\ StrictlyIncreasing(graph.node)
        /\ \A n, m \in 1..Len(nodes) :
            (Indexed(n) /\ Indexed(m) /\ nodes[n].index = nodes[m].index) => n = m
        /\ \A n \in 1..Len(nodes) :
            Indexed(n) => Occurrences(graph.node, nodes[n].index) = 1
        /\ \A i \in 1..Len(graph.node) :
            \E n \in 1..Len(nodes) : nodes[n].index = graph.node[i]
        /\ phase = "view" =>
            \A n \in Reachable(nodes) :
                Indexed(n) /\ Occurrences(graph.node, nodes[n].index) = 1

\* generateGraph has returned on a graph with a join and a loop, in which a
\* node that carried the marker 0 and a node that carried none (End) both
\* received an index
C6_Witness ==
    /\ phase = "view"
    /\ run = 1
    /\ Len(ifs) > 0
    /\ Len(whiles) > 0
    /\ \E n, m \in Reachable(nodes) :
        /\ nodes[n].kind = "End"
        /\ nodes[m].kind = "Conditional"
        /\ Indexed(n)
        /\ Indexed(m)
    /\ Len(graph.node) >= 5

(***************************************************************************)
(* C7.  Emission terminates on every simplified graph, cycles included:     *)
(* generateGraph is never called on a node that already carries an index,   *)
(* so each node is descended into at most once, no call of generateGraph    *)
(* fails, and a started emission reaches g.view().                          *)
(***************************************************************************)
DescendsOnlyIntoFresh ==
    (phase = "generateGraph" /\ Len(stack') > Len(stack) /\ Len(stack) > 0)
        => ~Indexed(stack'[Len(stack')].node)

\* what is left of the walk: 7 for a node not yet descended into, and for each
\* running call the positions it has still to go through
Remaining(pc) ==
    CASE pc = "call" -> 6 [] pc = "No" -> 5 [] pc = "retNo" -> 4 [] pc = "Yes" -> 3
      [] pc = "retYes" -> 2 [] OTHER -> 1

RECURSIVE RemainingOnStack(_)
RemainingOnStack(st) ==
    IF st = <<>> THEN 0 ELSE Remaining(Head(st).pc) + RemainingOnStack(Tail(st))

Variant(c, st) ==
    7 * Cardinality({ n \in 1..Len(c) : c[n] = 0 }) + RemainingOnStack(st)

\* every step of generateGraph takes the walk nearer to its end
WalkShrinks ==
    (phase = "generateGraph" /\ phase' = "generateGraph")
        => Variant(calls', stack') < Variant(calls, stack)

C7_EmissionTerminates ==
    /\ [][DescendsOnlyIntoFresh /\ WalkShrinks]_vars
    /\ [](Emitting => \A n \in 1..Len(nodes) : calls[n] <= 1)
    /\ [](~(phase = "crashed" /\ run >= 1))
    /\ [](phase = "generateGraph" => ENABLED Next)

\* generateGraph has returned on a graph with a cycle, having found the loop's
\* Conditional already indexed when it came back to it
C7_Witness ==
    /\ phase = "view"
    /\ Len(whiles) > 0
    /\ \E i \in 1..Len(graph.edge) : graph.edge[i][2] < graph.edge[i][1]

(***************************************************************************)
(* C9.  Emission never gives an index to a node that already carries one,   *)
(* and a second run of emission on the same graph leaves every node with    *)
(* the index the first run gave it.                                         *)
(***************************************************************************)
IndexKept == \A n \in 1..Len(nodes) : Indexed(n) => nodes'[n].index = nodes[n].index

C9_EmissionIdempotent ==
    /\ [][IndexKept]_vars
    /\ [](run >= 2 => \A n \in 1..Len(nodes) : nodes[n].index = firstIndex[n])

\* a second emission has returned on a graph with a join and a loop
C9_Witness ==
    /\ phase = "view"
    /\ run = 2
    /\ Len(ifs) > 0
    /\ Len(whiles) > 0
    /\ \A n \in Reachable(nodes) : Indexed(n) /\ nodes[n].index = firstIndex[n]

(***************************************************************************)
(* C8.  If any statement of the program, at any position and any nesting    *)
(* depth, is of an unsupported kind, the build fails: neither               *)
(* simplification nor emission runs, and nothing is declared to the         *)
(* backend.                                                                 *)
(***************************************************************************)
SupportedStatements == {"Assign", "AugAssign", "Expr", "If", "ImportFrom", "While"}

RECURSIVE HasUnsupported(_)
HasUnsupported(body) ==
    \E i \in 1..Len(body) :
        \/ body[i].type \notin SupportedStatements
        \/ HasUnsupported(body[i].body)
        \/ HasUnsupported(body[i].orelse)

BuildFailed ==
    /\ phase \in {"visit", "crashed"}
    /\ run = 0
    /\ graph = [node |-> <<>>, edge |-> <<>>]

C8_UnsupportedFails == HasUnsupported(prog) => BuildFailed

\* the same, for every statement except those in the else-block of a while
RECURSIVE HasUnsupportedOutsideWhileElse(_)
HasUnsupportedOutsideWhileElse(body) ==
    \E i \in 1..Len(body) :
        \/ body[i].type \notin SupportedStatements
        \/ HasUnsupportedOutsideWhileElse(body[i].body)
        \/ body[i].type # "While" /\ HasUnsupportedOutsideWhileElse(body[i].orelse)

C8_UnsupportedFailsOutsideWhileElse == HasUnsupportedOutsideWhileElse(prog) => BuildFailed

(***************************************************************************)
(* C10.  For an assignment whose right-hand side can be formatted, the      *)
(* builder appends exactly one node: an Input node named after the target   *)
(* exactly when the right-hand side is a call to input or a call whose sole *)
(* argument is a call to input, and otherwise a VariableAssignment node     *)
(* with the formatted right-hand side.  Stated of the first statement of    *)
(* the program, whose node is the one after Start.                          *)
(***************************************************************************)
IsInputCall(value) == value.type = "Call" /\ value.id = "input"

ReadsInput(value) ==
    \/ IsInputCall(value)
    \/ /\ value.type = "Call"
       /\ Len(value.args) = 1
       /\ IsInputCall(value.args[1])

C10_AssignAppendsOneNode ==
    (phase # "visit" /\ Len(prog) >= 1 /\ prog[1].type = "Assign" /\ Parses(prog[1].value)) =>
        LET b == visit_Assign(Visitor, prog[1])
            expected == IF ReadsInput(prog[1].value)
                        THEN InputNode(prog[1].target)
                        ELSE VariableAssignmentNode(prog[1].target, parseChunk(prog[1].value))
        IN  /\ b.exc = ""
            /\ Len(b.nodes) = 2
            /\ b.nodes[2] = expected
            /\ b.nodes[start].child = 2
            /\ b.currentParent = 2
            /\ Len(nodes) >= 2
            /\ nodes[2].kind = expected.kind
            /\ nodes[2].text = expected.text

\* the same, away from the two right-hand sides the code treats otherwise: a
\* call without arguments, and a call with several arguments
C10_AssignAppendsOneNodeOneArgument ==
    (/\ phase # "visit" /\ Len(prog) >= 1 /\ prog[1].type = "Assign"
     /\ Parses(prog[1].value)
     /\ prog[1].value.type = "Call" => (IsInputCall(prog[1].value) \/ Len(prog[1].value.args) = 1)) =>
        LET expected == IF ReadsInput(prog[1].value)
                        THEN InputNode(prog[1].target)
                        ELSE VariableAssignmentNode(prog[1].target, parseChunk(prog[1].value))
        IN  /\ Len(nodes) >= 2
            /\ nodes[2].kind = expected.kind
            /\ nodes[2].text = expected.text

(***************************************************************************)
(* C11.  Simplification changes no control flow between real nodes.  At     *)
(* every step of deleteExtraneousNodes each reference of a real node still  *)
(* leads to the real node it led to in the graph as built, and nothing but  *)
(* child references and index markers differs from that graph; once         *)
(* simplification has returned, each reference of a reachable real node     *)
(* points to exactly that node, and the reachable real nodes are those that *)
(* were reachable before.                                                   *)
(***************************************************************************)
ReachableReal(h) == { n \in Reachable(h) : ~Placeholder(h, n) }

C11_ControlFlowPreserved ==
    Built =>
        /\ Len(nodes) = Len(built)
        /\ \A n \in 1..Len(built) :
            /\ nodes[n].kind = built[n].kind
            /\ nodes[n].text = built[n].text
            /\ Placeholder(built, n) => nodes[n].child = built[n].child
        /\ \A n \in ReachableReal(built) : \A s \in Slots(built, n) :
            /\ Resolve(nodes, nodes[n][s]) = Resolve(built, built[n][s])
            /\ Simplified => nodes[n][s] = Resolve(built, built[n][s])
        /\ Simplified => ReachableReal(nodes) = ReachableReal(built)

\* simplification has returned on a graph with a loop in which a reference led
\* through two or more placeholders, and the reference now points to the real
\* node behind them
C11_Witness ==
    /\ Simplified
    /\ Len(whiles) > 0
    /\ Len(ifs) > 0
    /\ \E n \in ReachableReal(built) : \E s \in Slots(built, n) :
        /\ Cardinality(Chain(built, built[n][s])) >= 2
        /\ nodes[n][s] = Resolve(built, built[n][s])
        /\ nodes[n][s] # built[n][s]

====
